---- MODULE Spec2Model ----
(***************************************************************************)
(* The polygon editor of Editor.tsx as a state machine.                    *)
(*                                                                         *)
(* State: the fields of EditorState (activeTool, polygons, selectedIndex,  *)
(* mouseCoordsInSVG), the dragState ref of the Editor component, and the   *)
(* two values the Editor component destructures from the state when it     *)
(* renders (activeTool, addPolyPreview), which the event handlers of that  *)
(* render close over.  Every event handler runs to completion inside a     *)
(* MobX action; the observer() wrapper then re-renders the component, so   *)
(* every event ends with Render.                                           *)
(*                                                                         *)
(* The handlers are deterministic: each is written as the function from    *)
(* the state it runs in (a record of the variables above) and its inputs   *)
(* to the state it leaves, and the action of an event applies that         *)
(* function to the current state.                                          *)
(*                                                                         *)
(* Indices are the source's 0-based indices; polygons is a TLA+ sequence,  *)
(* so the polygon with index i is polygons[i + 1].                         *)
(***************************************************************************)
EXTENDS Integers, Sequences, FiniteSets, TLC

VARIABLES
    activeTool,              \* EditorState.activeTool
    polygons,                \* EditorState.polygons
    selectedIndex,           \* EditorState.selectedIndex
    mouseCoordsInSVG,        \* EditorState.mouseCoordsInSVG
    dragState,               \* dragState.current (useRef)
    renderedActiveTool,      \* const activeTool of the last render
    renderedAddPolyPreview,  \* const addPolyPreview of the last render
    lastEvent,               \* history: the event handled last
    dragStart,               \* history: the document and the pointer at drag start
    leftMidDrag,             \* history: the pointer left the canvas during a drag
                             \* and no mouse button went down since
    geomPolygon,             \* geometry.ts on its own: the polygon argument,
    geomTarget,              \* the target argument
    geomResult               \* and the point returned, undefined before the call

vars == <<activeTool, polygons, selectedIndex, mouseCoordsInSVG, dragState,
          renderedActiveTool, renderedAddPolyPreview,
          lastEvent, dragStart, leftMidDrag,
          geomPolygon, geomTarget, geomResult>>

-----------------------------------------------------------------------------
(* Bounds of the model *)

\* at most this many polygons are placed
MaxPolygons == 2

\* the pointer visits the canvas points (10c, 5c), c in 0..MaxStep
MaxStep == 1

\* a drag is followed only while the polygon stays inside 0..MaxCoord
MaxCoord == 70

\* geometry.ts on its own is called with the polygons of one, two and three
\* vertices on the grid 0..MaxGrid x 0..MaxGrid and the targets of the grid
\* two wider on every side (and with the examples below)
MaxGrid == 2

-----------------------------------------------------------------------------
(* Values *)

undefined == <<>>

null == <<>>

Tool == {"select", "move", "closest-points", "triangle", "square", "hexagon"}

KEY_TO_TOOL ==
    ("1" :> "select") @@ ("2" :> "move") @@ ("3" :> "closest-points")
    @@ ("4" :> "triangle") @@ ("5" :> "square") @@ ("6" :> "hexagon")

\* only the shape tools have a base polygon
BASE_POLYGONS ==
    [triangle |-> << <<30, 0>>, <<60, 45>>, <<0, 45>> >>,
     square   |-> << <<0, 0>>, <<50, 0>>, <<50, 50>>, <<0, 50>> >>,
     hexagon  |-> << <<60, 26>>, <<45, 52>>, <<15, 52>>,
                     <<0, 26>>, <<15, 0>>, <<45, 0>> >>]

\* geometry.ts: a deep copy, equal by value
clonePolygon(polygon) ==
    [i \in 1..Len(polygon) |-> <<polygon[i][1], polygon[i][2]>>]

-----------------------------------------------------------------------------
(* geometry.ts: the closest point of a polygon's boundary.                  *)
(*                                                                         *)
(* Polygons have integer vertices <<x, y>>.  The closest point has rational *)
(* coordinates: it is written <<xn, yn, d>> for the point (xn/d, yn/d),     *)
(* with d > 0 and the fraction in lowest terms, so that equal points are    *)
(* equal triples.  A squared distance is a fraction <<n, d>>, d > 0.        *)

RECURSIVE GCD(_, _)
GCD(a, b) == IF b = 0 THEN a ELSE GCD(b, a % b)

Abs(a) == IF a < 0 THEN 0 - a ELSE a

\* the point (xn/d, yn/d) in lowest terms
RatPoint(xn, yn, d) ==
    LET g == GCD(GCD(Abs(xn), Abs(yn)), d)
    IN  <<xn \div g, yn \div g, d \div g>>

\* n1/d1 < n2/d2 for fractions that are not negative, by comparing the
\* whole parts and then the reciprocals of the remainders
RECURSIVE RatLess(_, _, _, _)
RatLess(n1, d1, n2, d2) ==
    IF n1 \div d1 # n2 \div d2
    THEN n1 \div d1 < n2 \div d2
    ELSE IF n2 % d2 = 0
         THEN FALSE
         ELSE IF n1 % d1 = 0
              THEN TRUE
              ELSE RatLess(d2, n2 % d2, d1, n1 % d1)

\* mutant: the projection on the line through a and b is not clamped to the
\* segment
closestPointOnSegment_unclamped(a, b, target) ==
    LET dx == b[1] - a[1]
        dy == b[2] - a[2]
        len2 == dx * dx + dy * dy
        dot == (target[1] - a[1]) * dx + (target[2] - a[2]) * dy
        a2 == (target[1] - a[1]) * (target[1] - a[1])
              + (target[2] - a[2]) * (target[2] - a[2])
    IN  IF len2 = 0
        THEN [point |-> <<a[1], a[2], 1>>, dist2 |-> <<a2, 1>>]
        ELSE [point |-> RatPoint(a[1] * len2 + dot * dx,
                                 a[2] * len2 + dot * dy, len2),
              dist2 |-> <<a2 * len2 - dot * dot, len2>>]

\* the point of the segment from a to b closest to target, with its squared
\* distance to target: target is projected on the line through a and b and
\* the parameter t = dot / len2 of the projection is clamped to [0, 1];
\* for 0 < t < 1 the point is a + t (b - a), at squared distance
\* |target - a|^2 - dot^2 / len2
closestPointOnSegment(a, b, target) ==
    LET dx == b[1] - a[1]
        dy == b[2] - a[2]
        len2 == dx * dx + dy * dy
        dot == (target[1] - a[1]) * dx + (target[2] - a[2]) * dy
        a2 == (target[1] - a[1]) * (target[1] - a[1])
              + (target[2] - a[2]) * (target[2] - a[2])
        b2 == (target[1] - b[1]) * (target[1] - b[1])
              + (target[2] - b[2]) * (target[2] - b[2])
    IN  IF dot <= 0
        THEN [point |-> <<a[1], a[2], 1>>, dist2 |-> <<a2, 1>>]
        ELSE IF dot >= len2
             THEN [point |-> <<b[1], b[2], 1>>, dist2 |-> <<b2, 1>>]
             ELSE [point |-> RatPoint(a[1] * len2 + dot * dx,
                                      a[2] * len2 + dot * dy, len2),
                   dist2 |-> <<a2 * len2 - dot * dot, len2>>]

\* mutant: the edge from the last vertex back to the first is left out
closestPointOnSimplePolygonToTarget_openPath(polygon, target) ==
    LET n == Len(polygon)
        cand(i) == closestPointOnSegment(polygon[i], polygon[i + 1], target)
        best[i \in 1..(n - 1)] ==
            IF i = 1
            THEN cand(1)
            ELSE IF RatLess(cand(i).dist2[1], cand(i).dist2[2],
                            best[i - 1].dist2[1], best[i - 1].dist2[2])
                 THEN cand(i)
                 ELSE best[i - 1]
    IN  IF n = 1
        THEN <<polygon[1][1], polygon[1][2], 1>>
        ELSE best[n - 1].point

\* mutant: a single vertex is not told apart and goes through the edge loop,
\* where the projection on its edge of length 0 is 0/0: the point returned
\* is not a number, written with the denominator 0
closestPointOnSimplePolygonToTarget_noSingleVertexCase(polygon, target) ==
    LET n == Len(polygon)
        cand(i) ==
            closestPointOnSegment(polygon[i], polygon[(i % n) + 1], target)
        best[i \in 1..n] ==
            IF i = 1
            THEN cand(1)
            ELSE IF RatLess(cand(i).dist2[1], cand(i).dist2[2],
                            best[i - 1].dist2[1], best[i - 1].dist2[2])
                 THEN cand(i)
                 ELSE best[i - 1]
    IN  IF n = 1
        THEN <<0, 0, 0>>
        ELSE best[n].point

\* a single vertex is returned as it is; otherwise the candidates of the
\* edges (v[i], v[(i+1) mod n]) are compared in order and the first at the
\* minimum distance is returned
closestPointOnSimplePolygonToTarget(polygon, target) ==
    LET n == Len(polygon)
        cand(i) ==
            closestPointOnSegment(polygon[i], polygon[(i % n) + 1], target)
        best[i \in 1..n] ==
            IF i = 1
            THEN cand(1)
            ELSE IF RatLess(cand(i).dist2[1], cand(i).dist2[2],
                            best[i - 1].dist2[1], best[i - 1].dist2[2])
                 THEN cand(i)
                 ELSE best[i - 1]
    IN  IF n = 1
        THEN <<polygon[1][1], polygon[1][2], 1>>
        ELSE best[n].point

-----------------------------------------------------------------------------
(* Inputs: what the browser hands to the handlers *)

\* svgRef.current: the canvas element with its bounding rectangle, or null
SVGElements == {[left |-> 3, top |-> 7]}

SvgRefs == SVGElements \cup {null}

\* native mouse events: the pointer over the canvas points (10c, 5c)
MouseEvents ==
    {[clientX |-> 10 * c + 3, clientY |-> 5 * c + 7] : c \in 0..MaxStep}

\* ev.target: the canvas itself, a polygon element without a data-index (the
\* preview), or a polygon element carrying data-index = i
EventTargets ==
    {[isPolygon |-> FALSE, dataIndex |-> undefined],
     [isPolygon |-> TRUE, dataIndex |-> undefined]}
    \cup {[isPolygon |-> TRUE, dataIndex |-> <<i>>] : i \in (0 - 1)..MaxPolygons}

Keys == {"1", "2", "3", "4", "5", "6", "7"}

KeyboardEvents == [key : Keys, metaKey : BOOLEAN, shiftKey : BOOLEAN]

\* mutant: without the canvas element the pointer is taken to be at the origin
getMouseCoordinatesInSVG_originWhenNull(svgEl, ev) ==
    IF svgEl = null
    THEN <<0, 0>>
    ELSE <<ev.clientX - svgEl.left, ev.clientY - svgEl.top>>

getMouseCoordinatesInSVG(svgEl, ev) ==
    IF svgEl = null
    THEN undefined
    ELSE <<ev.clientX - svgEl.left, ev.clientY - svgEl.top>>

getPolygonIndexForElement(el) ==
    IF el.isPolygon /\ el.dataIndex # undefined
    THEN el.dataIndex[1]
    ELSE 0 - 1

-----------------------------------------------------------------------------------------------------------------------------------------------------
(* The state as one record; s ranges over such records below *)

Cur ==
    [activeTool |-> activeTool,
     polygons |-> polygons,
     selectedIndex |-> selectedIndex,
     mouseCoordsInSVG |-> mouseCoordsInSVG,
     dragState |-> dragState,
     renderedActiveTool |-> renderedActiveTool,
     renderedAddPolyPreview |-> renderedAddPolyPreview]

-----------------------------------------------------------------------------
(* Derived values of EditorState *)

\* mutant: the points are shown under every tool
closestPoints_anyTool(s) ==
    IF s.mouseCoordsInSVG = undefined
    THEN <<>>
    ELSE [i \in 1..Len(s.polygons) |->
             closestPointOnSimplePolygonToTarget(s.polygons[i],
                                                 s.mouseCoordsInSVG)]

closestPoints(s) ==
    IF s.activeTool # "closest-points" \/ s.mouseCoordsInSVG = undefined
    THEN <<>>
    ELSE [i \in 1..Len(s.polygons) |->
             closestPointOnSimplePolygonToTarget(s.polygons[i],
                                                 s.mouseCoordsInSVG)]

\* mutant: a tool without a base polygon falls back to the triangle
addPolyPreview_defaultTemplate(s) ==
    IF s.mouseCoordsInSVG # undefined
    THEN LET base == IF s.activeTool \in DOMAIN BASE_POLYGONS
                     THEN BASE_POLYGONS[s.activeTool]
                     ELSE BASE_POLYGONS["triangle"]
         IN  [i \in 1..Len(base) |->
                <<base[i][1] + s.mouseCoordsInSVG[1],
                  base[i][2] + s.mouseCoordsInSVG[2]>>]
    ELSE undefined

\* mutant: mouseX and mouseY change places
addPolyPreview_swapsAxes(s) ==
    IF s.mouseCoordsInSVG # undefined
    THEN IF s.activeTool \in DOMAIN BASE_POLYGONS
         THEN [i \in 1..Len(BASE_POLYGONS[s.activeTool]) |->
                  <<BASE_POLYGONS[s.activeTool][i][1] + s.mouseCoordsInSVG[2],
                    BASE_POLYGONS[s.activeTool][i][2] + s.mouseCoordsInSVG[1]>>]
         ELSE undefined
    ELSE undefined

addPolyPreview(s) ==
    IF s.mouseCoordsInSVG # undefined
    THEN IF s.activeTool \in DOMAIN BASE_POLYGONS
         THEN [i \in 1..Len(BASE_POLYGONS[s.activeTool]) |->
                  <<BASE_POLYGONS[s.activeTool][i][1] + s.mouseCoordsInSVG[1],
                    BASE_POLYGONS[s.activeTool][i][2] + s.mouseCoordsInSVG[2]>>]
         ELSE undefined
    ELSE undefined

\* mutant: a re-render refreshes activeTool and keeps the addPolyPreview the
\* handlers closed over before
Render_keepsPreview(s) ==
    [s EXCEPT !.renderedActiveTool = s.activeTool]

\* the observer re-renders Editor: the handlers of the next event close over
\* activeTool and addPolyPreview as they are after this event
Render(s) ==
    [s EXCEPT !.renderedActiveTool = s.activeTool,
              !.renderedAddPolyPreview = addPolyPreview(s)]

-----------------------------------------------------------------------------
(* Operations *)

\* mutant: a tool switch also ends the drag
setActiveTool_endsDrag(s, tool) ==
    [s EXCEPT !.activeTool = tool,
              !.selectedIndex = IF tool # "select" THEN 0 - 1 ELSE @,
              !.dragState = null]

\* mutant: the tool changes and the selection stays
setActiveTool_keepsSelection(s, tool) ==
    [s EXCEPT !.activeTool = tool]

setActiveTool(s, tool) ==
    [s EXCEPT !.activeTool = tool,
              !.selectedIndex = IF tool # "select" THEN 0 - 1 ELSE @]

\* mutant: the shift key is not looked at
windowKeyDown_ignoresShift(s, ev) ==
    IF ~ev.metaKey
    THEN IF ev.key \in DOMAIN KEY_TO_TOOL
         THEN setActiveTool(s, KEY_TO_TOOL[ev.key])
         ELSE s
    ELSE s

\* window "keydown" listener of the Toolbar component
windowKeyDown(s, ev) ==
    IF ~ev.metaKey /\ ~ev.shiftKey
    THEN IF ev.key \in DOMAIN KEY_TO_TOOL
         THEN setActiveTool(s, KEY_TO_TOOL[ev.key])
         ELSE s
    ELSE s

\* mutant: without pointer coordinates the handler leaves the drag alone
svgMouseDown_noElse(s, target, svgEl, ev) ==
    IF s.renderedActiveTool = "move"
    THEN LET index == getPolygonIndexForElement(target)
         IN  IF index >= 0 /\ index < Len(s.polygons)
             THEN LET poly == s.polygons[index + 1]
                      mouseCoords == getMouseCoordinatesInSVG(svgEl, ev)
                  IN  IF mouseCoords # undefined
                      THEN [s EXCEPT !.dragState =
                              [polyIndex |-> index,
                               relCoords |->
                                  [i \in 1..Len(poly) |->
                                      <<poly[i][1] - mouseCoords[1],
                                        poly[i][2] - mouseCoords[2]>>]]]
                      ELSE s
             ELSE s
    ELSE s

\* mutant: the drag begins under every tool
svgMouseDown_anyTool(s, target, svgEl, ev) ==
    LET index == getPolygonIndexForElement(target)
    IN  IF index >= 0 /\ index < Len(s.polygons)
        THEN LET poly == s.polygons[index + 1]
                 mouseCoords == getMouseCoordinatesInSVG(svgEl, ev)
             IN  IF mouseCoords # undefined
                 THEN [s EXCEPT !.dragState =
                         [polyIndex |-> index,
                          relCoords |->
                             [i \in 1..Len(poly) |->
                                 <<poly[i][1] - mouseCoords[1],
                                   poly[i][2] - mouseCoords[2]>>]]]
                 ELSE [s EXCEPT !.dragState = null]
        ELSE s

\* onMouseDown of the canvas
svgMouseDown(s, target, svgEl, ev) ==
    IF s.renderedActiveTool = "move"
    THEN LET index == getPolygonIndexForElement(target)
         IN  IF index >= 0 /\ index < Len(s.polygons)
             THEN LET poly == s.polygons[index + 1]
                      mouseCoords == getMouseCoordinatesInSVG(svgEl, ev)
                  IN  IF mouseCoords # undefined
                      THEN [s EXCEPT !.dragState =
                              [polyIndex |-> index,
                               relCoords |->
                                  [i \in 1..Len(poly) |->
                                      <<poly[i][1] - mouseCoords[1],
                                        poly[i][2] - mouseCoords[2]>>]]]
                      ELSE [s EXCEPT !.dragState = null]
             ELSE s
    ELSE s

\* mutant: the drag ends only while the move tool is active
svgMouseUp_onlyUnderMove(s) ==
    IF s.renderedActiveTool = "move"
    THEN [s EXCEPT !.dragState = null]
    ELSE s

\* onMouseUp of the canvas
svgMouseUp(s) ==
    [s EXCEPT !.dragState = null]

\* mutant: a click that misses every polygon clears the selection
svgMouseClick_deselectsOnMiss(s, target) ==
    IF s.activeTool = "select"
    THEN [s EXCEPT !.selectedIndex = getPolygonIndexForElement(target)]
    ELSE IF s.renderedAddPolyPreview # undefined
         THEN [s EXCEPT !.polygons =
                  Append(@, clonePolygon(s.renderedAddPolyPreview))]
         ELSE s

\* mutant: the placed polygon goes to the front of the document
svgMouseClick_unshift(s, target) ==
    IF s.activeTool = "select"
    THEN LET index == getPolygonIndexForElement(target)
         IN  IF index >= 0
             THEN [s EXCEPT !.selectedIndex = index]
             ELSE s
    ELSE IF s.renderedAddPolyPreview # undefined
         THEN [s EXCEPT !.polygons =
                  <<clonePolygon(s.renderedAddPolyPreview)>> \o @]
         ELSE s

\* onClick of the canvas
svgMouseClick(s, target) ==
    IF s.activeTool = "select"
    THEN LET index == getPolygonIndexForElement(target)
         IN  IF index >= 0
             THEN [s EXCEPT !.selectedIndex = index]
             ELSE s
    ELSE IF s.renderedAddPolyPreview # undefined
         THEN [s EXCEPT !.polygons =
                  Append(@, clonePolygon(s.renderedAddPolyPreview))]
         ELSE s

Min(a, b) == IF a < b THEN a ELSE b

\* mutant: the y coordinate of a dragged vertex follows mouseX
svgMouseMove_yFollowsX(s, svgEl, ev) ==
    LET s1 == [s EXCEPT !.mouseCoordsInSVG = getMouseCoordinatesInSVG(svgEl, ev)]
    IN  IF s1.renderedActiveTool = "move" /\ s1.dragState # null
           /\ s1.mouseCoordsInSVG # undefined
        THEN LET polyIndex == s1.dragState.polyIndex
                 relCoords == s1.dragState.relCoords
             IN  IF polyIndex >= 0 /\ polyIndex < Len(s1.polygons)
                 THEN LET poly == s1.polygons[polyIndex + 1]
                          len == Min(Len(relCoords), Len(poly))
                          mouseX == s1.mouseCoordsInSVG[1]
                      IN  [s1 EXCEPT !.polygons[polyIndex + 1] =
                             [i \in 1..Len(poly) |->
                                IF i <= len
                                THEN <<relCoords[i][1] + mouseX,
                                       relCoords[i][2] + mouseX>>
                                ELSE poly[i]]]
                 ELSE s1
        ELSE s1

\* mutant: the dragged polygon follows the pointer under every tool
svgMouseMove_anyTool(s, svgEl, ev) ==
    LET s1 == [s EXCEPT !.mouseCoordsInSVG = getMouseCoordinatesInSVG(svgEl, ev)]
    IN  IF s1.dragState # null /\ s1.mouseCoordsInSVG # undefined
        THEN LET polyIndex == s1.dragState.polyIndex
                 relCoords == s1.dragState.relCoords
             IN  IF polyIndex >= 0 /\ polyIndex < Len(s1.polygons)
                 THEN LET poly == s1.polygons[polyIndex + 1]
                          len == Min(Len(relCoords), Len(poly))
                          mouseX == s1.mouseCoordsInSVG[1]
                          mouseY == s1.mouseCoordsInSVG[2]
                      IN  [s1 EXCEPT !.polygons[polyIndex + 1] =
                             [i \in 1..Len(poly) |->
                                IF i <= len
                                THEN <<relCoords[i][1] + mouseX,
                                       relCoords[i][2] + mouseY>>
                                ELSE poly[i]]]
                 ELSE s1
        ELSE s1

\* mutant: the dragged polygon is moved by the step of the pointer since the
\* last pointer position of the state, not put at relCoords + pointer
svgMouseMove_byDelta(s, svgEl, ev) ==
    LET s1 == [s EXCEPT !.mouseCoordsInSVG = getMouseCoordinatesInSVG(svgEl, ev)]
    IN  IF s1.renderedActiveTool = "move" /\ s1.dragState # null
           /\ s1.mouseCoordsInSVG # undefined
        THEN LET polyIndex == s1.dragState.polyIndex
             IN  IF polyIndex >= 0 /\ polyIndex < Len(s1.polygons)
                    /\ s.mouseCoordsInSVG # undefined
                 THEN LET poly == s1.polygons[polyIndex + 1]
                          stepX == s1.mouseCoordsInSVG[1] - s.mouseCoordsInSVG[1]
                          stepY == s1.mouseCoordsInSVG[2] - s.mouseCoordsInSVG[2]
                      IN  [s1 EXCEPT !.polygons[polyIndex + 1] =
                             [i \in 1..Len(poly) |->
                                <<poly[i][1] + stepX, poly[i][2] + stepY>>]]
                 ELSE s1
        ELSE s1

\* mutant: the loop over the vertices stops one short
svgMouseMove_skipsLast(s, svgEl, ev) ==
    LET s1 == [s EXCEPT !.mouseCoordsInSVG = getMouseCoordinatesInSVG(svgEl, ev)]
    IN  IF s1.renderedActiveTool = "move" /\ s1.dragState # null
           /\ s1.mouseCoordsInSVG # undefined
        THEN LET polyIndex == s1.dragState.polyIndex
                 relCoords == s1.dragState.relCoords
             IN  IF polyIndex >= 0 /\ polyIndex < Len(s1.polygons)
                 THEN LET poly == s1.polygons[polyIndex + 1]
                          len == Min(Len(relCoords), Len(poly)) - 1
                          mouseX == s1.mouseCoordsInSVG[1]
                          mouseY == s1.mouseCoordsInSVG[2]
                      IN  [s1 EXCEPT !.polygons[polyIndex + 1] =
                             [i \in 1..Len(poly) |->
                                IF i <= len
                                THEN <<relCoords[i][1] + mouseX,
                                       relCoords[i][2] + mouseY>>
                                ELSE poly[i]]]
                 ELSE s1
        ELSE s1

\* onMouseMove of the canvas
svgMouseMove(s, svgEl, ev) ==
    LET s1 == [s EXCEPT !.mouseCoordsInSVG = getMouseCoordinatesInSVG(svgEl, ev)]
    IN  IF s1.renderedActiveTool = "move" /\ s1.dragState # null
           /\ s1.mouseCoordsInSVG # undefined
        THEN LET polyIndex == s1.dragState.polyIndex
                 relCoords == s1.dragState.relCoords
             IN  IF polyIndex >= 0 /\ polyIndex < Len(s1.polygons)
                 THEN LET poly == s1.polygons[polyIndex + 1]
                          len == Min(Len(relCoords), Len(poly))
                          mouseX == s1.mouseCoordsInSVG[1]
                          mouseY == s1.mouseCoordsInSVG[2]
                      IN  [s1 EXCEPT !.polygons[polyIndex + 1] =
                             [i \in 1..Len(poly) |->
                                IF i <= len
                                THEN <<relCoords[i][1] + mouseX,
                                       relCoords[i][2] + mouseY>>
                                ELSE poly[i]]]
                 ELSE s1
        ELSE s1

\* mutant: leaving the canvas forgets the pointer and keeps the drag
svgMouseLeave_keepsDrag(s) ==
    [s EXCEPT !.mouseCoordsInSVG = undefined]

\* onMouseLeave of the canvas
svgMouseLeave(s) ==
    [s EXCEPT !.dragState = null, !.mouseCoordsInSVG = undefined]

-----------------------------------------------------------------------------
(* Events: a handler runs on the current state, then Editor re-renders *)

\* the event leaves the program in state s
Becomes(s) ==
    /\ activeTool' = s.activeTool
    /\ polygons' = s.polygons
    /\ selectedIndex' = s.selectedIndex
    /\ mouseCoordsInSVG' = s.mouseCoordsInSVG
    /\ dragState' = s.dragState
    /\ renderedActiveTool' = s.renderedActiveTool
    /\ renderedAddPolyPreview' = s.renderedAddPolyPreview
    /\ UNCHANGED <<geomPolygon, geomTarget, geomResult>>

\* every coordinate of every polygon of the document lies in 0..MaxCoord
InCanvas(polys) ==
    \A k \in 1..Len(polys) : \A i \in 1..Len(polys[k]) :
        /\ polys[k][i][1] \in 0..MaxCoord
        /\ polys[k][i][2] \in 0..MaxCoord

\* onClick of a toolbar button
ToolbarButtonClick ==
    \E tool \in Tool :
        /\ Becomes(Render(setActiveTool(Cur, tool)))
        /\ lastEvent' = "toolbar"
        /\ UNCHANGED <<dragStart, leftMidDrag>>

WindowKeyDown ==
    \E ev \in KeyboardEvents :
        /\ Becomes(Render(windowKeyDown(Cur, ev)))
        /\ lastEvent' = "keydown"
        /\ UNCHANGED <<dragStart, leftMidDrag>>

SvgMouseDown ==
    \E target \in EventTargets, svgEl \in SvgRefs, ev \in MouseEvents :
        LET s == Render(svgMouseDown(Cur, target, svgEl, ev))
            index == getPolygonIndexForElement(target)
        IN  /\ Becomes(s)
            /\ lastEvent' = "mousedown"
            /\ dragStart' =
                  IF s.dragState = null
                  THEN null
                  ELSE IF renderedActiveTool = "move"
                          /\ index >= 0 /\ index < Len(polygons)
                       THEN [polygons |-> polygons,
                             pointer |-> getMouseCoordinatesInSVG(svgEl, ev)]
                       ELSE dragStart
            /\ leftMidDrag' = FALSE

SvgMouseUp ==
    /\ Becomes(Render(svgMouseUp(Cur)))
    /\ lastEvent' = "mouseup"
    /\ dragStart' = null
    /\ UNCHANGED leftMidDrag

SvgMouseClick ==
    \E target \in EventTargets :
        LET s == Render(svgMouseClick(Cur, target))
        IN  /\ Len(s.polygons) <= MaxPolygons
            /\ Becomes(s)
            /\ lastEvent' = "click"
            /\ UNCHANGED <<dragStart, leftMidDrag>>

SvgMouseMove ==
    \E svgEl \in SvgRefs, ev \in MouseEvents :
        LET s == Render(svgMouseMove(Cur, svgEl, ev))
        IN  /\ s.polygons # polygons => InCanvas(s.polygons)
            /\ Becomes(s)
            /\ lastEvent' = "mousemove"
            /\ UNCHANGED <<dragStart, leftMidDrag>>

SvgMouseLeave ==
    /\ Becomes(Render(svgMouseLeave(Cur)))
    /\ lastEvent' = "mouseleave"
    /\ dragStart' = null
    /\ leftMidDrag' = (leftMidDrag \/ dragState # null)

-----------------------------------------------------------------------------
(* Specification *)

Init ==
    /\ activeTool = "triangle"
    /\ polygons = <<>>
    /\ selectedIndex = 0 - 1
    /\ mouseCoordsInSVG = undefined
    /\ dragState = null
    /\ renderedActiveTool = "triangle"
    /\ renderedAddPolyPreview = undefined
    /\ lastEvent = "init"
    /\ dragStart = null
    /\ leftMidDrag = FALSE
    /\ geomPolygon = <<>>
    /\ geomTarget = undefined
    /\ geomResult = undefined

Next ==
    \/ ToolbarButtonClick
    \/ WindowKeyDown
    \/ SvgMouseDown
    \/ SvgMouseUp
    \/ SvgMouseClick
    \/ SvgMouseMove
    \/ SvgMouseLeave

Spec == Init /\ [][Next]_vars

-----------------------------------------------------------------------------
(* Specification of geometry.ts on its own: one call of                     *)
(* closestPointOnSimplePolygonToTarget on a polygon and a target drawn from *)
(* the inputs below; the editor stays as it is constructed.                 *)

GridPoints == {<<x, y>> : x \in 0..MaxGrid, y \in 0..MaxGrid}

\* the polygons of one, two and three vertices on the grid, no vertex equal
\* to the next one around the polygon
GridPolygons ==
    {<<a>> : a \in GridPoints}
    \cup {q \in GridPoints \X GridPoints : q[1] # q[2]}
    \cup {q \in GridPoints \X GridPoints \X GridPoints :
             q[1] # q[2] /\ q[2] # q[3] /\ q[3] # q[1]}

GridTargets ==
    {<<x, y>> : x \in (0 - 2)..(MaxGrid + 2), y \in (0 - 2)..(MaxGrid + 2)}

\* the square and the single vertex of the examples of the spec, and a
\* polygon that is simple and not convex
ExampleSquare == << <<0, 0>>, <<10, 0>>, <<10, 10>>, <<0, 10>> >>

ExampleVertex == << <<3, 4>> >>

ExampleConcave == << <<0, 0>>, <<8, 0>>, <<4, 3>>, <<8, 8>>, <<0, 8>> >>

ExampleTargets ==
    {<<x, y>> : x \in {0 - 5, 0, 3, 5, 7, 10, 15},
                y \in {0 - 5, 0, 4, 5, 6, 10, 15}}

GeomInputs ==
    (GridPolygons \X GridTargets)
    \cup ({ExampleSquare, ExampleVertex, ExampleConcave} \X ExampleTargets)

GeomInit ==
    /\ activeTool = "triangle"
    /\ polygons = <<>>
    /\ selectedIndex = 0 - 1
    /\ mouseCoordsInSVG = undefined
    /\ dragState = null
    /\ renderedActiveTool = "triangle"
    /\ renderedAddPolyPreview = undefined
    /\ lastEvent = "init"
    /\ dragStart = null
    /\ leftMidDrag = FALSE
    /\ \E input \in GeomInputs :
          /\ geomPolygon = input[1]
          /\ geomTarget = input[2]
    /\ geomResult = undefined

\* the call: the point is returned, the arguments are left as they are
GeomCall ==
    /\ geomResult = undefined
    /\ geomResult' = closestPointOnSimplePolygonToTarget(geomPolygon, geomTarget)
    /\ UNCHANGED <<geomPolygon, geomTarget>>
    /\ UNCHANGED <<activeTool, polygons, selectedIndex, mouseCoordsInSVG,
                   dragState, renderedActiveTool, renderedAddPolyPreview,
                   lastEvent, dragStart, leftMidDrag>>

GeomNext == GeomCall

GeomSpec == GeomInit /\ [][GeomNext]_vars

-----------------------------------------------------------------------------
(* Properties.  A property of an operation is stated of the operation's     *)
(* function applied to the current state, for every input, so it is checked *)
(* in every reachable state the operation can run in.                       *)

ShapeTools == DOMAIN BASE_POLYGONS

\* the hit index is an index of s.polygons
ValidIndex(s, index) == index >= 0 /\ index < Len(s.polygons)

\* every vertex of polygon moved by (dx, dy)
Translate(polygon, dx, dy) ==
    [i \in 1..Len(polygon) |-> <<polygon[i][1] + dx, polygon[i][2] + dy>>]

\* C1: selection is tool-scoped: setActiveTool(t) with t other than select
\* leaves selectedIndex = -1, and in every reachable state a selection
\* (selectedIndex /= -1) implies activeTool = select.
C1_SelectionToolScoped ==
    /\ \A tool \in Tool \ {"select"} :
          setActiveTool(Cur, tool).selectedIndex = 0 - 1
    /\ selectedIndex # 0 - 1 => activeTool = "select"

\* C1 witness: a polygon is selected, and switching to the move tool from
\* this state clears the selection.
C1_Witness ==
    /\ activeTool = "select"
    /\ selectedIndex = 1
    /\ Len(polygons) = 2
    /\ lastEvent = "click"
    /\ setActiveTool(Cur, "move").selectedIndex = 0 - 1

\* C2: while a drag that began on polygon k with the pointer at p0 lasts,
\* a pointer move to p1 under the move tool leaves every vertex of polygon k
\* at its position at drag start plus (p1 - p0), and every other polygon as
\* it was at drag start.
C2_DragTranslation ==
    (dragState # null /\ renderedActiveTool = "move") =>
        \A svgEl \in SVGElements, ev \in MouseEvents :
            LET p0 == dragStart.pointer
                p1 == getMouseCoordinatesInSVG(svgEl, ev)
                k == dragState.polyIndex + 1
                t == svgMouseMove(Cur, svgEl, ev)
            IN  /\ t.polygons[k] = Translate(dragStart.polygons[k],
                                             p1[1] - p0[1], p1[2] - p0[2])
                /\ \A j \in 1..Len(dragStart.polygons) :
                      j # k => t.polygons[j] = dragStart.polygons[j]
                /\ Len(t.polygons) = Len(polygons)

\* C2 witness: the pointer has moved during a drag of one of two polygons,
\* away from where the drag began, and the dragged polygon has followed it.
C2_Witness ==
    /\ lastEvent = "mousemove"
    /\ dragState # null
    /\ activeTool = "move"
    /\ Len(dragStart.polygons) = 2
    /\ mouseCoordsInSVG # undefined
    /\ mouseCoordsInSVG # dragStart.pointer
    /\ LET k == dragState.polyIndex + 1
       IN  /\ polygons[k] # dragStart.polygons[k]
           /\ polygons[k] =
                 Translate(dragStart.polygons[k],
                           mouseCoordsInSVG[1] - dragStart.pointer[1],
                           mouseCoordsInSVG[2] - dragStart.pointer[2])

\* C3: a click while a shape tool is active and the pointer is present
\* appends exactly one polygon, equal to the placement preview of the state,
\* at index = the previous length of polygons; the count grows by exactly 1
\* and every polygon that existed is unchanged.
C3_ShapePlacement ==
    (activeTool \in ShapeTools /\ mouseCoordsInSVG # undefined) =>
        \A target \in EventTargets :
            LET t == svgMouseClick(Cur, target)
                n == Len(polygons)
            IN  /\ Len(t.polygons) = n + 1
                /\ t.polygons[n + 1] = addPolyPreview(Cur)
                /\ \A i \in 1..n : t.polygons[i] = polygons[i]

\* C3 witness: a click has just placed a second polygon, different from the
\* first, at the end of the document.
C3_Witness ==
    /\ lastEvent = "click"
    /\ activeTool \in ShapeTools
    /\ mouseCoordsInSVG # undefined
    /\ Len(polygons) = 2
    /\ polygons[2] = addPolyPreview(Cur)
    /\ polygons[1] # polygons[2]

\* C4: leaving the canvas during a drag leaves dragState and the pointer
\* position absent, and from then until a mouse button goes down again there
\* is no drag and no pointer move changes a polygon.
C4_LeaveClearsTransientState ==
    /\ dragState # null =>
          /\ svgMouseLeave(Cur).dragState = null
          /\ svgMouseLeave(Cur).mouseCoordsInSVG = undefined
    /\ leftMidDrag =>
          /\ dragState = null
          /\ \A svgEl \in SvgRefs, ev \in MouseEvents :
                svgMouseMove(Cur, svgEl, ev).polygons = polygons

\* C4 witness: the pointer left the canvas during a drag and has come back
\* and moved under the move tool, with no mouse button pressed in between.
C4_Witness ==
    /\ leftMidDrag
    /\ lastEvent = "mousemove"
    /\ activeTool = "move"
    /\ mouseCoordsInSVG # undefined
    /\ polygons # <<>>
    /\ dragState = null

\* C5: in every reachable state selectedIndex is -1 or an index of polygons
\* (0 <= selectedIndex < Len(polygons)), also in the states a click under
\* the select tool with an out-of-range hit index leads to.
C5_SelectedIndexValid ==
    selectedIndex = 0 - 1 \/ ValidIndex(Cur, selectedIndex)

\* C6 as claimed: every operation called with an out-of-range polygon index,
\* or while the pointer is absent, leaves polygons unchanged.
C6_InvalidInputNoOp ==
    \A target \in EventTargets, svgEl \in SvgRefs, ev \in MouseEvents :
        LET index == getPolygonIndexForElement(target)
        IN  /\ (~ValidIndex(Cur, index) \/ svgEl = null) =>
                  svgMouseDown(Cur, target, svgEl, ev).polygons = polygons
            /\ (~ValidIndex(Cur, index) \/ mouseCoordsInSVG = undefined) =>
                  svgMouseClick(Cur, target).polygons = polygons
            /\ svgEl = null =>
                  svgMouseMove(Cur, svgEl, ev).polygons = polygons

\* C6 amended: a mouse down with an out-of-range index or without pointer
\* coordinates, a pointer move without coordinates, a click while the pointer
\* is absent, and a click with an out-of-range index under a tool that is not
\* a shape tool leave polygons unchanged; a click under a shape tool with the
\* pointer present places its polygon whatever the hit index is.
C6_InvalidInputNoOpAmended ==
    \A target \in EventTargets, svgEl \in SvgRefs, ev \in MouseEvents :
        LET index == getPolygonIndexForElement(target)
        IN  /\ (~ValidIndex(Cur, index) \/ svgEl = null) =>
                  svgMouseDown(Cur, target, svgEl, ev).polygons = polygons
            /\ mouseCoordsInSVG = undefined =>
                  svgMouseClick(Cur, target).polygons = polygons
            /\ (~ValidIndex(Cur, index) /\ activeTool \notin ShapeTools) =>
                  svgMouseClick(Cur, target).polygons = polygons
            /\ (~ValidIndex(Cur, index) /\ activeTool \in ShapeTools
                  /\ mouseCoordsInSVG # undefined) =>
                  svgMouseClick(Cur, target).polygons =
                     Append(polygons, addPolyPreview(Cur))
            /\ svgEl = null =>
                  svgMouseMove(Cur, svgEl, ev).polygons = polygons

\* C6 witness: during a drag under the move tool the pointer has moved
\* without coordinates; the document is not empty and a pointer move without
\* coordinates leaves it as it is.
C6_Witness ==
    /\ lastEvent = "mousemove"
    /\ mouseCoordsInSVG = undefined
    /\ dragState # null
    /\ activeTool = "move"
    /\ polygons # <<>>
    /\ polygons = dragStart.polygons
    /\ \A ev \in MouseEvents : svgMouseMove(Cur, null, ev).polygons = polygons

\* C7 as claimed: a mouse down under the move tool without pointer
\* coordinates leaves dragState absent, whatever the hit index is.
C7_DownWithoutPointerClearsDrag ==
    renderedActiveTool = "move" =>
        \A target \in EventTargets, ev \in MouseEvents :
            svgMouseDown(Cur, target, null, ev).dragState = null

\* C7 amended: a mouse down under the move tool without pointer coordinates
\* leaves dragState absent when the hit index is an index of polygons, and
\* leaves dragState as it is when the hit index is out of range.
C7_DownWithoutPointerAmended ==
    renderedActiveTool = "move" =>
        \A target \in EventTargets, ev \in MouseEvents :
            LET index == getPolygonIndexForElement(target)
                t == svgMouseDown(Cur, target, null, ev)
            IN  /\ ValidIndex(Cur, index) => t.dragState = null
                /\ ~ValidIndex(Cur, index) => t.dragState = dragState

\* C7 witness: a drag is in progress under the move tool, and a mouse down
\* on a polygon without pointer coordinates ends it.
C7_Witness ==
    /\ dragState # null
    /\ renderedActiveTool = "move"
    /\ \E target \in EventTargets, ev \in MouseEvents :
          /\ ValidIndex(Cur, getPolygonIndexForElement(target))
          /\ svgMouseDown(Cur, target, null, ev).dragState = null

\* C8: a mouse up leaves dragState absent from every state, whatever the
\* tool and whether or not a drag was active, changes nothing else, and is
\* idempotent.
C8_PointerUpClearsDrag ==
    LET t == svgMouseUp(Cur)
    IN  /\ t.dragState = null
        /\ t = [Cur EXCEPT !.dragState = null]
        /\ svgMouseUp(t) = t

\* C8 witness: a drag is in progress while another tool than move is active,
\* and a mouse up ends it.
C8_Witness ==
    /\ dragState # null
    /\ activeTool # "move"
    /\ svgMouseUp(Cur).dragState = null

\* C9: setActiveTool leaves polygons, the pointer position and dragState
\* unchanged for every tool; it changes only activeTool and, when the new
\* tool is not select, selectedIndex.
C9_SetActiveToolFrame ==
    \A tool \in Tool :
        LET t == setActiveTool(Cur, tool)
        IN  /\ t.polygons = polygons
            /\ t.mouseCoordsInSVG = mouseCoordsInSVG
            /\ t.dragState = dragState
            /\ t.activeTool = tool
            /\ tool = "select" => t.selectedIndex = selectedIndex
            /\ t = [Cur EXCEPT !.activeTool = t.activeTool,
                               !.selectedIndex = t.selectedIndex]

\* C9 witness: a toolbar button has switched the tool away from move during
\* a drag; the drag, the pointer and the document are still there.
C9_Witness ==
    /\ lastEvent = "toolbar"
    /\ activeTool # "move"
    /\ dragState # null
    /\ mouseCoordsInSVG # undefined
    /\ polygons # <<>>

\* C10: under the select tool a click that hits a polygon sets selectedIndex
\* to the hit index and a click that misses every polygon (hit index -1)
\* leaves selectedIndex unchanged; neither changes polygons; and no other
\* event than such a hit or a tool switch changes selectedIndex.
C10_SelectClick ==
    \A target \in EventTargets, svgEl \in SvgRefs, ev \in MouseEvents :
        LET index == getPolygonIndexForElement(target)
            t == svgMouseClick(Cur, target)
        IN  /\ activeTool = "select" =>
                  /\ index >= 0 => t.selectedIndex = index
                  /\ index = 0 - 1 => t.selectedIndex = selectedIndex
                  /\ t.polygons = polygons
            /\ activeTool # "select" => t.selectedIndex = selectedIndex
            /\ svgMouseDown(Cur, target, svgEl, ev).selectedIndex = selectedIndex
            /\ svgMouseUp(Cur).selectedIndex = selectedIndex
            /\ svgMouseMove(Cur, svgEl, ev).selectedIndex = selectedIndex
            /\ svgMouseLeave(Cur).selectedIndex = selectedIndex

\* C10 witness: a click has selected the second of two polygons, and a click
\* on the empty canvas leaves it selected.
C10_Witness ==
    /\ lastEvent = "click"
    /\ activeTool = "select"
    /\ Len(polygons) = 2
    /\ selectedIndex = 1
    /\ svgMouseClick(Cur, [isPolygon |-> FALSE, dataIndex |-> undefined]).selectedIndex = 1

\* the point r = <<xn, yn, d>> lies on the segment from a to b: r - a is
\* parallel to b - a and its projection on b - a lies between 0 and |b - a|^2
OnSegment(a, b, r) ==
    LET dx == b[1] - a[1]
        dy == b[2] - a[2]
        rx == r[1] - a[1] * r[3]
        ry == r[2] - a[2] * r[3]
    IN  /\ r[3] > 0
        /\ dx * ry - dy * rx = 0
        /\ rx * dx + ry * dy >= 0
        /\ rx * dx + ry * dy <= (dx * dx + dy * dy) * r[3]
        /\ a = b => (rx = 0 /\ ry = 0)

\* r lies on an edge (v[i], v[(i+1) mod n]) of the polygon
OnBoundary(polygon, r) ==
    \E i \in 1..Len(polygon) :
        OnSegment(polygon[i], polygon[(i % Len(polygon)) + 1], r)

\* the squared distance of r = <<xn, yn, d>> to the point p, as <<n, d>>
Dist2(p, r) ==
    <<(r[1] - p[1] * r[3]) * (r[1] - p[1] * r[3])
      + (r[2] - p[2] * r[3]) * (r[2] - p[2] * r[3]), r[3] * r[3]>>

\* no point of the segment from a to b is closer to p than r is.  The
\* squared distance of p to a + s (b - a) is A - 2 s dot + s^2 len2 with
\* A = |p - a|^2; over 0 <= s <= 1 it is least at s = 0, at s = 1 or, when
\* 0 < dot < len2, at s = dot / len2, where it is A - dot^2 / len2.  The
\* points at s = 0, 1/4, 1/2, 3/4, 1 are compared one by one as well.
NoCloserPointOnSegment(a, b, p, r) ==
    LET dx == b[1] - a[1]
        dy == b[2] - a[2]
        len2 == dx * dx + dy * dy
        dot == (p[1] - a[1]) * dx + (p[2] - a[2]) * dy
        A == (p[1] - a[1]) * (p[1] - a[1]) + (p[2] - a[2]) * (p[2] - a[2])
        B == (p[1] - b[1]) * (p[1] - b[1]) + (p[2] - b[2]) * (p[2] - b[2])
        D == Dist2(p, r)
    IN  /\ ~RatLess(A, 1, D[1], D[2])
        /\ ~RatLess(B, 1, D[1], D[2])
        /\ (0 < dot /\ dot < len2) =>
              ~RatLess(A * len2 - dot * dot, len2, D[1], D[2])
        /\ \A k \in 0..4 :
              ~RatLess((4 * (a[1] - p[1]) + k * dx) * (4 * (a[1] - p[1]) + k * dx)
                       + (4 * (a[2] - p[2]) + k * dy) * (4 * (a[2] - p[2]) + k * dy),
                       16, D[1], D[2])

\* C11: a click while activeTool is move or closest-points leaves polygons
\* and selectedIndex unchanged, whatever the hit index is and whether the
\* pointer position is present or absent.
C11_ClickNoDocumentEffect ==
    activeTool \in {"move", "closest-points"} =>
        \A target \in EventTargets :
            LET t == svgMouseClick(Cur, target)
            IN  /\ t.polygons = polygons
                /\ t.selectedIndex = selectedIndex

\* C11 witness: a click has been handled under the closest-points tool with
\* the pointer over the canvas and a polygon in the document.
C11_Witness ==
    /\ lastEvent = "click"
    /\ activeTool = "closest-points"
    /\ mouseCoordsInSVG # undefined
    /\ Len(polygons) = 1
    /\ selectedIndex = 0 - 1

C13_PlacementPreview ==
    LET preview == addPolyPreview(Cur)
    IN  /\ preview # undefined <=>
              (activeTool \in ShapeTools /\ mouseCoordsInSVG # undefined)
        /\ preview # undefined =>
              /\ Len(preview) = Len(BASE_POLYGONS[activeTool])
              /\ \A i \in 1..Len(preview) :
                    /\ preview[i][1] =
                          BASE_POLYGONS[activeTool][i][1] + mouseCoordsInSVG[1]
                    /\ preview[i][2] =
                          BASE_POLYGONS[activeTool][i][2] + mouseCoordsInSVG[2]
        /\ addPolyPreview([Cur EXCEPT !.activeTool = "square",
                                      !.mouseCoordsInSVG = <<100, 100>>])
              = << <<100, 100>>, <<150, 100>>, <<150, 150>>, <<100, 150>> >>

\* C13 witness: the pointer has moved to a point with different x and y
\* under the hexagon tool, and the preview is there.
C13_Witness ==
    /\ lastEvent = "mousemove"
    /\ activeTool = "hexagon"
    /\ mouseCoordsInSVG # undefined
    /\ mouseCoordsInSVG[1] # mouseCoordsInSVG[2]
    /\ Len(addPolyPreview(Cur)) = 6

\* C14: closestPoints has exactly one entry per polygon, the i-th being the
\* closest point of the i-th polygon to the pointer, when activeTool is
\* closest-points and the pointer position is present; it is empty in
\* every other state.
C14_ClosestPointsPerPolygon ==
    LET points == closestPoints(Cur)
    IN  IF activeTool = "closest-points" /\ mouseCoordsInSVG # undefined
        THEN /\ Len(points) = Len(polygons)
             /\ \A i \in 1..Len(polygons) :
                   /\ points[i] = closestPointOnSimplePolygonToTarget(
                                     polygons[i], mouseCoordsInSVG)
                   /\ OnBoundary(polygons[i], points[i])
        ELSE points = <<>>

\* C14 witness: the pointer has moved under the closest-points tool over a
\* document of two polygons, and there are two closest points, not the same.
C14_Witness ==
    /\ lastEvent = "mousemove"
    /\ activeTool = "closest-points"
    /\ mouseCoordsInSVG # undefined
    /\ Len(polygons) = 2
    /\ Len(closestPoints(Cur)) = 2
    /\ closestPoints(Cur)[1] # closestPoints(Cur)[2]

\* the step from the document before to the document after appends at most
\* one polygon, only when grows is allowed, and keeps the vertex count at
\* every index that existed
AppendOnlyStep(before, after, mayGrow) ==
    /\ Len(after) >= Len(before)
    /\ Len(after) # Len(before) => (mayGrow /\ Len(after) = Len(before) + 1)
    /\ \A i \in 1..Len(before) : Len(after[i]) = Len(before[i])

\* C15: the document is append-only with stable indices: whatever event is
\* handled next, the length of polygons does not decrease, it grows only by
\* a click under a shape tool and then by exactly 1, and the vertex count of
\* the polygon at every existing index does not change.
C15_AppendOnly ==
    /\ \A tool \in Tool :
          AppendOnlyStep(polygons, setActiveTool(Cur, tool).polygons, FALSE)
    /\ \A ev \in KeyboardEvents :
          AppendOnlyStep(polygons, windowKeyDown(Cur, ev).polygons, FALSE)
    /\ \A target \in EventTargets, svgEl \in SvgRefs, ev \in MouseEvents :
          /\ AppendOnlyStep(polygons,
                            svgMouseDown(Cur, target, svgEl, ev).polygons, FALSE)
          /\ AppendOnlyStep(polygons,
                            svgMouseMove(Cur, svgEl, ev).polygons, FALSE)
          /\ AppendOnlyStep(polygons, svgMouseClick(Cur, target).polygons,
                            activeTool \in ShapeTools)
    /\ AppendOnlyStep(polygons, svgMouseUp(Cur).polygons, FALSE)
    /\ AppendOnlyStep(polygons, svgMouseLeave(Cur).polygons, FALSE)

\* C15 witness: the square placed first has been dragged to (20,10) and kept
\* its index and its four vertices, and the click just handled has placed a
\* polygon of another vertex count behind it.
C15_Witness ==
    /\ lastEvent = "click"
    /\ Len(polygons) = 2
    /\ polygons[1] = Translate(BASE_POLYGONS["square"], 20, 10)
    /\ Len(polygons[2]) # 4
    /\ activeTool \in ShapeTools

\* C16: a key press of 1..6 with neither the meta key nor the shift key held
\* sets activeTool to select, move, closest-points, triangle, square,
\* hexagon respectively; a key press with the meta key or the shift key
\* held, or of another key, leaves the whole state unchanged.
C16_KeyboardToolSelection ==
    \A ev \in KeyboardEvents :
        LET t == windowKeyDown(Cur, ev)
            plain == ~ev.metaKey /\ ~ev.shiftKey
        IN  /\ (plain /\ ev.key = "1") => t.activeTool = "select"
            /\ (plain /\ ev.key = "2") => t.activeTool = "move"
            /\ (plain /\ ev.key = "3") => t.activeTool = "closest-points"
            /\ (plain /\ ev.key = "4") => t.activeTool = "triangle"
            /\ (plain /\ ev.key = "5") => t.activeTool = "square"
            /\ (plain /\ ev.key = "6") => t.activeTool = "hexagon"
            /\ (~plain \/ ev.key \notin {"1", "2", "3", "4", "5", "6"}) =>
                  t = Cur

\* C16 witness: a key press has been handled and left the select tool active
\* with a polygon selected; from here the key 2 switches to the move tool
\* and the key 2 with shift held changes nothing.
C16_Witness ==
    /\ lastEvent = "keydown"
    /\ activeTool = "select"
    /\ selectedIndex = 0
    /\ polygons # <<>>
    /\ windowKeyDown(Cur, [key |-> "2", metaKey |-> FALSE,
                           shiftKey |-> FALSE]).activeTool = "move"
    /\ windowKeyDown(Cur, [key |-> "2", metaKey |-> FALSE,
                           shiftKey |-> TRUE]) = Cur

\* C17: the point closestPointOnSimplePolygonToTarget returns lies on an
\* edge of the polygon and no point of any edge (v[i], v[(i+1) mod n]) is
\* closer to the target; for the square [(0,0),(10,0),(10,10),(0,10)] and
\* the target (5,-5) it is (5,0), and a target that lies on an edge is
\* returned as itself.
C17_ClosestPointMinimal ==
    geomResult # undefined =>
        /\ OnBoundary(geomPolygon, geomResult)
        /\ \A i \in 1..Len(geomPolygon) :
              NoCloserPointOnSegment(geomPolygon[i],
                                     geomPolygon[(i % Len(geomPolygon)) + 1],
                                     geomTarget, geomResult)
        /\ (geomPolygon = ExampleSquare /\ geomTarget = <<5, 0 - 5>>) =>
              geomResult = <<5, 0, 1>>
        /\ OnBoundary(geomPolygon, <<geomTarget[1], geomTarget[2], 1>>) =>
              geomResult = <<geomTarget[1], geomTarget[2], 1>>

\* C17 witness: the call on the square and the target (5,-5) has returned.
C17_Witness ==
    /\ geomPolygon = ExampleSquare
    /\ geomTarget = <<5, 0 - 5>>
    /\ geomResult = <<5, 0, 1>>

\* C18: for every polygon of at least one vertex and every target the
\* point returned lies exactly on the boundary of the polygon, on an edge
\* or a vertex, and the call leaves the polygon it was given as it was.
C18_ResultOnBoundary ==
    [][geomResult' # geomResult =>
          /\ OnBoundary(geomPolygon, geomResult')
          /\ geomPolygon' = geomPolygon
          /\ geomTarget' = geomTarget]_vars

\* C18 witness: the call on the polygon that is not convex has returned a
\* point inside a slanted edge, with coordinates that are not integers.
C18_Witness ==
    /\ geomPolygon = ExampleConcave
    /\ geomResult # undefined
    /\ geomResult[3] > 1
    /\ \/ OnSegment(<<8, 0>>, <<4, 3>>, geomResult)
       \/ OnSegment(<<4, 3>>, <<8, 8>>, geomResult)

\* C19: for a polygon of a single vertex v the point returned is v, for
\* every target.
C19_SingleVertex ==
    (geomResult # undefined /\ Len(geomPolygon) = 1) =>
        geomResult = <<geomPolygon[1][1], geomPolygon[1][2], 1>>

\* C19 witness: the call on the polygon [(3,4)] and a target away from
\* (3,4) has returned (3,4).
C19_Witness ==
    /\ geomPolygon = ExampleVertex
    /\ geomTarget = <<15, 0 - 5>>
    /\ geomResult = <<3, 4, 1>>

\* C20: a mouse down begins a drag only under the move tool, with a hit
\* index that is an index of polygons and with the pointer coordinates of
\* the event present: dragState then holds that index and, for every vertex
\* of the hit polygon, the vertex minus the pointer, and nothing else
\* changes; under any other tool, or with a hit index out of range, the
\* mouse down leaves dragState and all other state unchanged.
C20_PointerDownBeginsDrag ==
    \A target \in EventTargets, svgEl \in SvgRefs, ev \in MouseEvents :
        LET index == getPolygonIndexForElement(target)
            pointer == getMouseCoordinatesInSVG(svgEl, ev)
            t == svgMouseDown(Cur, target, svgEl, ev)
            begins == activeTool = "move" /\ ValidIndex(Cur, index)
                      /\ pointer # undefined
        IN  /\ begins =>
                  /\ t.dragState # null
                  /\ t.dragState.polyIndex = index
                  /\ Len(t.dragState.relCoords) = Len(polygons[index + 1])
                  /\ \A i \in 1..Len(polygons[index + 1]) :
                        /\ t.dragState.relCoords[i][1] =
                              polygons[index + 1][i][1] - pointer[1]
                        /\ t.dragState.relCoords[i][2] =
                              polygons[index + 1][i][2] - pointer[2]
                  /\ t = [Cur EXCEPT !.dragState = t.dragState]
            /\ ~begins => (t.dragState = null \/ t.dragState = dragState)
            /\ (activeTool # "move" \/ ~ValidIndex(Cur, index)) => t = Cur

\* C20 witness: a mouse down under the move tool, with the pointer away
\* from the origin, has begun a drag of the second of two polygons.
C20_Witness ==
    /\ lastEvent = "mousedown"
    /\ activeTool = "move"
    /\ Len(polygons) = 2
    /\ dragState # null
    /\ dragState.polyIndex = 1
    /\ dragStart.pointer = <<10, 5>>
    /\ dragState.relCoords = Translate(polygons[2], 0 - 10, 0 - 5)

\* every polygon of the document before is in the document after, at its
\* index, with the coordinates it had, but for the polygon at index except
PolygonsKept(before, after, except) ==
    /\ Len(after) >= Len(before)
    /\ \A j \in 1..Len(before) : j # except + 1 => after[j] = before[j]

\* C21: the only step that changes a coordinate of a vertex that exists is
\* a pointer move with coordinates while activeTool is move and dragState is
\* present, and it changes only the polygon at dragState.polyIndex; a
\* pointer move under another tool, without coordinates or without a drag,
\* and every other operation leave every existing vertex as it is.
C21_OnlyDragMovesVertices ==
    /\ \A tool \in Tool :
          PolygonsKept(polygons, setActiveTool(Cur, tool).polygons, 0 - 1)
    /\ \A ev \in KeyboardEvents :
          PolygonsKept(polygons, windowKeyDown(Cur, ev).polygons, 0 - 1)
    /\ PolygonsKept(polygons, svgMouseUp(Cur).polygons, 0 - 1)
    /\ PolygonsKept(polygons, svgMouseLeave(Cur).polygons, 0 - 1)
    /\ \A target \in EventTargets, svgEl \in SvgRefs, ev \in MouseEvents :
          /\ PolygonsKept(polygons,
                          svgMouseDown(Cur, target, svgEl, ev).polygons, 0 - 1)
          /\ PolygonsKept(polygons, svgMouseClick(Cur, target).polygons, 0 - 1)
          /\ IF activeTool = "move" /\ dragState # null /\ svgEl # null
             THEN PolygonsKept(polygons, svgMouseMove(Cur, svgEl, ev).polygons,
                               dragState.polyIndex)
             ELSE PolygonsKept(polygons, svgMouseMove(Cur, svgEl, ev).polygons,
                               0 - 1)

\* C21 witness: a pointer move has dragged the first of two polygons away
\* from where it was at drag start and the second is where it was; the tool
\* has then been switched, and from here a pointer move changes no vertex
\* although the drag is still there.
C21_Witness ==
    /\ lastEvent \in {"toolbar", "keydown"}
    /\ activeTool = "closest-points"
    /\ dragState # null
    /\ dragState.polyIndex = 0
    /\ Len(polygons) = 2
    /\ polygons[1] # dragStart.polygons[1]
    /\ polygons[2] = dragStart.polygons[2]
    /\ \A svgEl \in SvgRefs, ev \in MouseEvents :
          svgMouseMove(Cur, svgEl, ev).polygons = polygons

\* C22: a drag is not ended by a tool switch.  While dragState is present
\* it holds the index and the offsets (vertex minus pointer) of the mouse
\* down that began the drag; switching to any tool and back to move, with no
\* mouse up and no mouse leave in between, leaves it as it is, and the next
\* pointer move to p under the move tool puts every vertex of the dragged
\* polygon at its offset plus p.
C22_DragSurvivesToolSwitch ==
    dragState # null =>
        LET k == dragState.polyIndex + 1
        IN  /\ dragStart # null
            /\ k \in 1..Len(dragStart.polygons)
            /\ dragState.relCoords =
                  Translate(dragStart.polygons[k],
                            0 - dragStart.pointer[1], 0 - dragStart.pointer[2])
            /\ \A ev \in KeyboardEvents :
                  windowKeyDown(Cur, ev).dragState = dragState
            /\ \A tool \in Tool :
                  LET away == Render(setActiveTool(Cur, tool))
                      back == Render(setActiveTool(away, "move"))
                  IN  /\ away.dragState = dragState
                      /\ back.dragState = dragState
                      /\ \A svgEl \in SVGElements, ev \in MouseEvents :
                            LET p == getMouseCoordinatesInSVG(svgEl, ev)
                            IN  svgMouseMove(back, svgEl, ev).polygons[k] =
                                   Translate(dragState.relCoords, p[1], p[2])

\* C22 witness: a drag began on a document of one polygon; a shape tool was
\* then active, since a second polygon has been placed, and the tool has
\* just been switched back to move with the drag still there.
C22_Witness ==
    /\ lastEvent \in {"toolbar", "keydown"}
    /\ activeTool = "move"
    /\ dragState # null
    /\ dragStart # null
    /\ Len(dragStart.polygons) = 1
    /\ Len(polygons) = 2
    /\ dragState.polyIndex = 0
    /\ dragState.relCoords =
          Translate(dragStart.polygons[1],
                    0 - dragStart.pointer[1], 0 - dragStart.pointer[2])

\* C23: a drag is path-independent.  The offsets stored at the mouse down
\* stay what they were, so a pointer move to p during the drag, whatever
\* pointer move came before it, leaves the vertices of the dragged polygon
\* at offsets[i] + p: the document after two moves is the document after the
\* second alone, and after every move of a drag the dragged polygon is its
\* position at drag start moved by p minus the pointer at drag start.
C23_DragPathIndependent ==
    (dragState # null /\ renderedActiveTool = "move") =>
        LET k == dragState.polyIndex + 1
            p0 == dragStart.pointer
        IN  /\ dragState.relCoords =
                  Translate(dragStart.polygons[k], 0 - p0[1], 0 - p0[2])
            /\ (lastEvent = "mousemove" /\ mouseCoordsInSVG # undefined) =>
                  polygons[k] = Translate(dragState.relCoords,
                                          mouseCoordsInSVG[1],
                                          mouseCoordsInSVG[2])
            /\ \A svgEl1 \in SvgRefs, ev1 \in MouseEvents,
                  svgEl2 \in SVGElements, ev2 \in MouseEvents :
                  LET mid == Render(svgMouseMove(Cur, svgEl1, ev1))
                      end == svgMouseMove(mid, svgEl2, ev2)
                      p == getMouseCoordinatesInSVG(svgEl2, ev2)
                  IN  /\ mid.dragState = dragState
                      /\ end.polygons = svgMouseMove(Cur, svgEl2, ev2).polygons
                      /\ end.polygons[k] =
                            Translate(dragStart.polygons[k],
                                      p[1] - p0[1], p[2] - p0[2])

\* C23 witness: a pointer move of a drag has taken the polygon away from
\* where it was at drag start, and a second pointer move from here takes it
\* back there.
C23_Witness ==
    /\ lastEvent = "mousemove"
    /\ activeTool = "move"
    /\ dragState # null
    /\ polygons # dragStart.polygons
    /\ \E svgEl \in SVGElements, ev \in MouseEvents :
          /\ getMouseCoordinatesInSVG(svgEl, ev) = dragStart.pointer
          /\ svgMouseMove(Cur, svgEl, ev).polygons = dragStart.polygons

\* C24: in every reachable state where dragState is present its polyIndex
\* is an index of polygons and it holds as many offsets as that polygon has
\* vertices, so the clamp to the shorter length in the pointer move cuts
\* nothing off and a pointer move of the drag moves every vertex.
C24_DragStateMatchesPolygon ==
    dragState # null =>
        /\ ValidIndex(Cur, dragState.polyIndex)
        /\ Len(dragState.relCoords) = Len(polygons[dragState.polyIndex + 1])
        /\ renderedActiveTool = "move" =>
              \A svgEl \in SVGElements, ev \in MouseEvents :
                  LET p == getMouseCoordinatesInSVG(svgEl, ev)
                      t == svgMouseMove(Cur, svgEl, ev)
                  IN  \A i \in 1..Len(polygons[dragState.polyIndex + 1]) :
                          t.polygons[dragState.polyIndex + 1][i] =
                             <<dragState.relCoords[i][1] + p[1],
                               dragState.relCoords[i][2] + p[2]>>

\* C24 witness: a drag of the only polygon began, and a polygon of another
\* vertex count has been placed during the drag; the offsets are still as
\* many as the vertices of the polygon dragged.
C24_Witness ==
    /\ dragState # null
    /\ Len(dragStart.polygons) = 1
    /\ Len(polygons) = 2
    /\ Len(polygons[1]) # Len(polygons[2])
    /\ dragState.polyIndex = 0
    /\ Len(dragState.relCoords) = Len(polygons[1])

\* the polygon is the base polygon of the tool moved by one offset, that of
\* its first vertex
TranslateOfTemplate(polygon, tool) ==
    /\ Len(polygon) = Len(BASE_POLYGONS[tool])
    /\ polygon = Translate(BASE_POLYGONS[tool],
                           polygon[1][1] - BASE_POLYGONS[tool][1][1],
                           polygon[1][2] - BASE_POLYGONS[tool][1][2])

\* C25: in every reachable state every polygon of the document is one of
\* the three base polygons (triangle, square, hexagon) moved by a single
\* offset: it has 3, 4 or 6 vertices and vertex[i] = template[i] + d for
\* all i; placing a polygon and dragging one keep it so.
C25_PolygonsAreTranslatedTemplates ==
    /\ \A k \in 1..Len(polygons) :
          /\ Len(polygons[k]) \in {3, 4, 6}
          /\ \E tool \in ShapeTools : TranslateOfTemplate(polygons[k], tool)
    /\ \A target \in EventTargets :
          LET placed == svgMouseClick(Cur, target).polygons
          IN  \A k \in (Len(polygons) + 1)..Len(placed) :
                  \E tool \in ShapeTools : TranslateOfTemplate(placed[k], tool)
    /\ dragState # null =>
          \A svgEl \in SVGElements, ev \in MouseEvents :
              LET dragged == svgMouseMove(Cur, svgEl, ev).polygons
              IN  \A k \in 1..Len(polygons) :
                      \E tool \in ShapeTools :
                          TranslateOfTemplate(dragged[k], tool)

\* C25 witness: a hexagon placed with the pointer at the origin has been
\* dragged by (10,5) and is the hexagon moved by (10,5).
C25_Witness ==
    /\ lastEvent = "mousemove"
    /\ dragState # null
    /\ dragStart.polygons[dragState.polyIndex + 1] = BASE_POLYGONS["hexagon"]
    /\ polygons[dragState.polyIndex + 1] =
          Translate(BASE_POLYGONS["hexagon"], 10, 5)

====
